---- MODULE Spec2Model ----
(***************************************************************************)
(* A model of the test orchestration and execution engine of the passoff   *)
(* harness (src/resources/repo_test.py, src/resources/repo_test_suite.py): *)
(*   - the Result model: repo_test_result and its merged_result operator,  *)
(*   - the Chain composite: repo_test_linked_list.initiate_test,           *)
(*   - the Process Executor: repo_test.execute_command with its reader     *)
(*     thread read_stdout_to_queue_thread,                                 *)
(*   - the Follow composite: repo_test_follow.initiate_test,               *)
(*   - the Group: repo_test_group with make_test units as its members,     *)
(*     run and summarised by repo_test_suite.run_tests,                    *)
(*   - one call of repo_test_group.add_test on a group of any members,     *)
(*   - repo_test.cleanup on any recorded files,                            *)
(*   - make_test.perform_test with required input and build files,         *)
(*   - repo_test_suite.check_commit_date polling the remote,               *)
(*   - repo_test_suite.run_main with the build, check_repo and submit      *)
(*     options.                                                            *)
(* Each component has its own variables, its own initial condition and its *)
(* own next-state relation; SpecMerge, SpecChain, SpecExec, SpecFollow,    *)
(* SpecGroup, SpecAddTest, SpecClean, SpecMake, SpecCommit and SpecMain    *)
(* run one component with the others idle, SpecLinks runs the chain with   *)
(* add_next_test on any two units, Spec is the union of the components.    *)
(***************************************************************************)
EXTENDS Integers, Sequences, FiniteSets, TLC

VARIABLES
    \* ---- Result model: operands and outcome of merged_result ----
    a, b, c,        \* three repo_test_result objects
    out,            \* what the last merge expression evaluated to
    op,             \* which merge expression was evaluated
    \* ---- Chain: repo_test_linked_list ----
    next,           \* next[u]: the unit linked after u, 0 for None
    previous,       \* previous[u]: the unit linked before u, 0 for None
    nlinks,         \* number of chain units constructed so far
    cur_test,       \* initiate_test's cur_test, 0 for None
    new_result,     \* initiate_test's new_result
    performed,      \* the Results returned by perform_test, in call order
    cpc,            \* position of the chain code
    \* ---- Process Executor: repo_test.execute_command ----
    timeout_seconds,    \* self.timeout_seconds
    print_to_stdout,    \* repo_test_suite.print_to_stdout
    test_log_open,      \* repo_test_suite.test_log_fp is open
    fp_open,            \* the per-command log fp is open
    log_wanted,         \* the call had a log directory and an output filename
    pc,                 \* position of execute_command (the consumer)
    rpc,                \* position of the reader thread
    child,              \* state of the child process
    stdout_open,        \* the child still holds its end of the pipe
    emitted,            \* lines the child has written, in order
    pipe,               \* lines written and not yet read from the pipe
    output_queue,       \* queue.Queue between reader and consumer
    console,            \* lines relayed to sys.stdout
    test_log,           \* lines relayed to the aggregate log
    cmd_log,            \* lines relayed to the per-command log
    now,                \* seconds of wall-clock time since start_time
    returncode,         \* proc.returncode once the child has ended
    killed,             \* proc.terminate() was called
    ret,                \* what execute_command returned
    \* ---- Follow: repo_test_follow ----
    follow_sub_tests,   \* follow_sub_tests[u]: the list self.sub_tests of unit u
    nfollow,            \* number of follow units constructed so far
    sub_idx,            \* position of initiate_test's for loop in sub_tests
    own_result,         \* initiate_test's own_result
    fperformed,         \* the Results returned by perform_test, in call order
    fpc,                \* position of the follow code
    \* ---- Group: repo_test_group, and the suite's two groups ----
    sub_tests,          \* repo_tests.sub_tests: the members of the master group
    makefile_tests,     \* makefile_tests.sub_tests: the pre-built build units
    result_dict,        \* repo_tests.result_dict, in insertion order
    ngroup,             \* number of units constructed for the groups so far
    test_idx,           \* position of initiate_test's for loop in sub_tests
    ginvoked,           \* member and outcome of each initiate_test call made
                        \* by the current invocation, in call order
    group_result,       \* what the last initiate_test of the group returned
    ninvoke,            \* number of invocations of the group so far
    absorbed,           \* add_group has been called on the master group
    summary,            \* the lines print_test_summary printed after this run
    gpc,                \* position of the group code
    \* ---- one call of repo_test_group.add_test ----
    arg_tests,          \* self.sub_tests when add_test is called
    arg_rtest,          \* the argument rtest
    arg_position,       \* the argument position
    add_out,            \* self.sub_tests when add_test has returned
    apc,                \* position of the call
    \* ---- repo_test.cleanup of one unit ----
    files_to_delete,    \* self.files_to_delete: the paths the unit recorded
    existing,           \* the paths that exist in the file system
    cleanups,           \* the file system before and after each cleanup call
    klpc,               \* position of the cleanup code
    \* ---- one call of make_test.perform_test ----
    required_input_files,   \* the unit's required_input_files, None or a list
    required_build_files,   \* the unit's required_build_files, None or a list
    make_files,             \* the paths that exist in the working directory
    mk_return_val,          \* what execute_command gave, None when it was not called
    make_calls,             \* what perform_test has called, in order
    make_result,            \* what perform_test returned or raised
    mkpc,                   \* position of the call
    \* ---- repo_test_suite.check_commit_date ----
    first_time,         \* check_commit_date's first_time
    elapsed,            \* time.time() - initial_time, in seconds
    tag_present,        \* the lab tag is among self.repo.tags
    commit_file,        \* the tagged commit holds a .commitdate file
    check_status,       \* what check_commit_date returned, None before
    cdpc,               \* position of check_commit_date
    \* ---- repo_test_suite.run_main ----
    run_time_args,      \* the options build, noclean, check_repo and submit
    build_steps,        \* makefile_tests.sub_tests: the registered build units
    main_tests,         \* repo_tests.sub_tests during run_main
    main_dict,          \* repo_tests.result_dict during run_main
    main_nunits,        \* number of units constructed so far
    unit_class,         \* what each constructed unit is
    main_idx,           \* position of initiate_test's for loop
    run_returned,       \* the results members returned in this run_tests
    executions,         \* the members executed since run_main began, in order
    run_result,         \* what the last run_tests returned
    submit_called,      \* submit_lab has been called
    stage,              \* the option whose run_tests is running
    mnpc,               \* position of run_main
    \* ---- repo_test.__init__ ----
    abort_on_error      \* the abort_on_error the units are constructed with

merge_vars == <<a, b, c, out, op>>
chain_vars == <<next, previous, nlinks, cur_test, new_result, performed, cpc>>
exec_vars  == <<timeout_seconds, print_to_stdout, test_log_open, fp_open,
                log_wanted, pc, rpc,
                child, stdout_open, emitted, pipe, output_queue, console, test_log,
                cmd_log, now, returncode, killed, ret>>
follow_vars == <<follow_sub_tests, nfollow, sub_idx, own_result, fperformed, fpc>>
group_vars == <<sub_tests, makefile_tests, result_dict, ngroup, test_idx, ginvoked,
                group_result, ninvoke, absorbed, summary, gpc>>
add_vars == <<arg_tests, arg_rtest, arg_position, add_out, apc>>
clean_vars == <<files_to_delete, existing, cleanups, klpc>>
make_vars == <<required_input_files, required_build_files, make_files,
               mk_return_val, make_calls, make_result, mkpc>>
commit_vars == <<first_time, elapsed, tag_present, commit_file, check_status, cdpc>>
main_vars == <<run_time_args, build_steps, main_tests, main_dict, main_nunits, unit_class, main_idx, run_returned, executions, run_result, submit_called, stage, mnpc>>
vars == <<merge_vars,
          chain_vars,
          exec_vars,
          follow_vars,
          group_vars,
          add_vars,
          clean_vars,
          make_vars,
          commit_vars,
          main_vars,
          abort_on_error>>

\* The variables of the components other than the named one, and the attribute
\* of the units that no component assigns after construction.
outside_clean ==
    <<merge_vars,
      chain_vars,
      exec_vars,
      follow_vars,
      group_vars,
      add_vars,
      make_vars,
      commit_vars,
      main_vars,
      abort_on_error>>
outside_make ==
    <<merge_vars,
      chain_vars,
      exec_vars,
      follow_vars,
      group_vars,
      add_vars,
      clean_vars,
      commit_vars,
      main_vars,
      abort_on_error>>
outside_commit ==
    <<merge_vars,
      chain_vars,
      exec_vars,
      follow_vars,
      group_vars,
      add_vars,
      clean_vars,
      make_vars,
      main_vars,
      abort_on_error>>
outside_main ==
    <<merge_vars,
      chain_vars,
      exec_vars,
      follow_vars,
      group_vars,
      add_vars,
      clean_vars,
      make_vars,
      commit_vars,
      abort_on_error>>
outside_merge ==
    <<chain_vars,
      exec_vars,
      follow_vars,
      group_vars,
      add_vars,
      clean_vars,
      make_vars,
      commit_vars,
      main_vars,
      abort_on_error>>
outside_chain ==
    <<merge_vars,
      exec_vars,
      follow_vars,
      group_vars,
      add_vars,
      clean_vars,
      make_vars,
      commit_vars,
      main_vars,
      abort_on_error>>
outside_exec ==
    <<merge_vars,
      chain_vars,
      follow_vars,
      group_vars,
      add_vars,
      clean_vars,
      make_vars,
      commit_vars,
      main_vars,
      abort_on_error>>
outside_follow ==
    <<merge_vars,
      chain_vars,
      exec_vars,
      group_vars,
      add_vars,
      clean_vars,
      make_vars,
      commit_vars,
      main_vars,
      abort_on_error>>
outside_add ==
    <<merge_vars,
      chain_vars,
      exec_vars,
      follow_vars,
      group_vars,
      clean_vars,
      make_vars,
      commit_vars,
      main_vars,
      abort_on_error>>
outside_group ==
    <<merge_vars,
      chain_vars,
      exec_vars,
      follow_vars,
      add_vars,
      clean_vars,
      make_vars,
      commit_vars,
      main_vars,
      abort_on_error>>

-----------------------------------------------------------------------------
(* Bounds of the model *)

NumUnits == 3       \* test units that exist
MaxLines == 2       \* lines a child writes at most
MaxTime  == 4       \* the clock saturates here (above every timeout drawn)
MaxExit  == 2       \* a child exits with a status in 0..MaxExit
MaxTimeout == 2     \* the largest timeout_seconds a unit is constructed with
MaxMembers == 2     \* members a group holds at most
MaxInvokes == 2     \* invocations of the master group
NumPaths == 3       \* paths of the file system
MaxRecorded == 2    \* paths a unit has recorded at most
MaxCleanups == 2    \* cleanup calls on the unit
MaxRequired == 1    \* required files a build unit lists at most
MaxRules == 1       \* build rules a lab script registers at most

Units == 1..NumUnits

-----------------------------------------------------------------------------
(* Result model: src/resources/repo_test.py, result_type, repo_test_result *)

SUCCESS == "SUCCESS"
WARNING == "WARNING"
ERROR   == "ERROR"
result_type == {SUCCESS, WARNING, ERROR}

\* Python's None, and an exception that left the evaluated expression.
None      == [tag |-> "None"]
TypeError == [tag |-> "TypeError"]

\* An optional message: NoMsg is msg = None, <<s>> is the string s.
NoMsg == <<>>
MsgText == {"", "x", "y"}
MsgValues == {NoMsg} \cup {<<s>> : s \in MsgText}

repo_test_result(test, result, msg) ==
    [tag |-> "result", test |-> test, result |-> result, msg |-> msg]

IsResult(r) == r.tag = "result"

Results == {repo_test_result(t, s, m) : t \in Units, s \in result_type, m \in MsgValues}

\* The operand of the += in merged_result:
\*   "\n" + other_result.msg if new_msg is not None else other_result.msg
AddOperand(new_msg, other_msg) ==
    IF new_msg # NoMsg THEN "\n" \o other_msg[1] ELSE other_msg[1]

\* new_msg += operand raises TypeError when new_msg is None ...
AugAddRaises(new_msg) == new_msg = NoMsg

\* ... and is string concatenation otherwise.
AugAdd(new_msg, operand) == <<new_msg[1] \o operand>>

\* The severity merged_result computes from the two operands' severities.
new_error(self_result, other_result) ==
    IF self_result = ERROR \/ other_result = ERROR
    THEN ERROR
    ELSE IF self_result = WARNING \/ other_result = WARNING
         THEN WARNING
         ELSE SUCCESS

\* A merge that would lose the message when the other operand is None.
merged_result_without_msg(self, other_result) ==
    IF other_result = None
    THEN repo_test_result(self.test, self.result, NoMsg)
    ELSE TypeError

\* repo_test_result.merged_result(self, other_result)
merged_result(self, other_result) ==
    IF other_result = None
    THEN repo_test_result(self.test, self.result, self.msg)
    ELSE IF other_result.msg # NoMsg /\ AugAddRaises(self.msg)
    THEN TypeError
    ELSE LET new_msg ==
                 IF other_result.msg # NoMsg
                 THEN AugAdd(self.msg, AddOperand(self.msg, other_result.msg))
                 ELSE self.msg
         IN  repo_test_result(self.test,
                              new_error(self.result, other_result.result),
                              new_msg)

\* x.merged_result(y) where evaluating x or y may already have raised.
CallMerged(x, y) ==
    IF x = TypeError \/ y = TypeError THEN TypeError ELSE merged_result(x, y)

MergeIdle == a = None /\ b = None /\ c = None /\ out = None /\ op = "idle"

MergeInit ==
    /\ a \in Results
    /\ b \in Results
    /\ c \in Results
    /\ out = None
    /\ op = "start"

\* out = a.merged_result(b)
MergeAB ==
    /\ op = "start"
    /\ out' = CallMerged(a, b)
    /\ op' = "ab"
    /\ UNCHANGED <<a, b, c, outside_merge>>

\* out = a.merged_result(None)
MergeANone ==
    /\ op = "start"
    /\ out' = CallMerged(a, None)
    /\ op' = "a_none"
    /\ UNCHANGED <<a, b, c, outside_merge>>

\* out = a.merged_result(b).merged_result(c)
MergeABC ==
    /\ op = "ab"
    /\ out' = CallMerged(out, c)
    /\ op' = "ab_c"
    /\ UNCHANGED <<a, b, c, outside_merge>>

MergeNext == MergeAB \/ MergeANone \/ MergeABC

-----------------------------------------------------------------------------
(* Chain: src/resources/repo_test.py, repo_test_linked_list *)

ChainIdle ==
    /\ next = [u \in Units |-> 0]
    /\ previous = [u \in Units |-> 0]
    /\ nlinks = 0
    /\ cur_test = 0
    /\ new_result = None
    /\ performed = <<>>
    /\ cpc = "idle"

\* The head unit (unit 1) has been constructed: previous = None, next = None.
ChainInit ==
    /\ next = [u \in Units |-> 0]
    /\ previous = [u \in Units |-> 0]
    /\ nlinks = 1
    /\ cur_test = 0
    /\ new_result = None
    /\ performed = <<>>
    /\ cpc = "build"

\* repo_test_linked_list.add_next_test(self, next_test)
add_next_test(self, next_test) ==
    /\ next' = [next EXCEPT ![self] = next_test]
    /\ previous' = [previous EXCEPT ![next_test] = self]

\* The harness constructs one more unit and links it after the current tail.
ChainAddNext ==
    /\ cpc = "build"
    /\ nlinks < NumUnits
    /\ add_next_test(nlinks, nlinks + 1)
    /\ nlinks' = nlinks + 1
    /\ UNCHANGED <<cur_test, new_result, performed, cpc, outside_chain>>

\* repo_test_linked_list.__init__: one more unit is constructed, linked to
\* nothing.
ChainNewUnit ==
    /\ cpc = "build"
    /\ nlinks < NumUnits
    /\ nlinks' = nlinks + 1
    /\ UNCHANGED <<next, previous, cur_test, new_result, performed, cpc,
                   outside_chain>>

\* add_next_test is called on any unit constructed, with any other unit
\* constructed.
ChainAddNextAny ==
    /\ cpc = "build"
    /\ \E self \in 1..nlinks :
          \E next_test \in 1..nlinks \ {self} : add_next_test(self, next_test)
    /\ UNCHANGED <<nlinks, cur_test, new_result, performed, cpc, outside_chain>>

\* Units are constructed and linked by add_next_test in any way.
LinksNext == ChainNewUnit \/ ChainAddNextAny

\* The unit was constructed by add_makefile_test, for a make rule of its own.
IsMakefileTest(u) == \E i \in 1..Len(makefile_tests) : makefile_tests[i] = u

\* repo_test_unit.getName: the name a unit was constructed with. A make_test is
\* named after its rule: "clean" when add_clean_test constructed it, the rule
\* given to add_makefile_test otherwise.
getName(u) == IF IsMakefileTest(u) THEN "rule" \o ToString(u) ELSE "clean"

\* The text a unit puts in its Result when it gives one a message.
UnitMsg(u) == "m" \o ToString(u)

\* What perform_test of leaf unit u can return: success_result, warning_result or
\* error_result of that unit, with no message, an empty one or the unit's text.
perform_test(u) ==
    {repo_test_result(u, s, m) : s \in result_type, m \in {NoMsg, <<"">>, <<UnitMsg(u)>>}}

\* initiate_test is called on the head: cur_test = self; new_result = None
ChainInitiate ==
    /\ cpc = "build"
    /\ cur_test' = 1
    /\ new_result' = None
    /\ cpc' = "loop"
    /\ UNCHANGED <<next, previous, nlinks, performed, outside_chain>>

\* How the loop body folds the link's result into the accumulated one.
ChainFold(result, acc) == CallMerged(result, acc)

\* One iteration of the while loop:
\*   result = cur_test.perform_test()
\*   new_result = result.merged_result(new_result)
\*   cur_test = cur_test.next
ChainStep ==
    /\ cpc = "loop"
    /\ cur_test # 0
    /\ \E result \in perform_test(cur_test) :
          /\ performed' = Append(performed, result)
          /\ LET merged == ChainFold(result, new_result)
             IN  IF merged = TypeError
                 THEN /\ cpc' = "raised"
                      /\ UNCHANGED <<new_result, cur_test>>
                 ELSE /\ new_result' = merged
                      /\ cur_test' = next[cur_test]
                      /\ cpc' = cpc
    /\ UNCHANGED <<next, previous, nlinks, outside_chain>>

\* cur_test is None: return new_result
ChainReturn ==
    /\ cpc = "loop"
    /\ cur_test = 0
    /\ cpc' = "returned"
    /\ UNCHANGED <<next, previous, nlinks, cur_test, new_result, performed,
                   outside_chain>>

ChainNext == ChainAddNext \/ ChainInitiate \/ ChainStep \/ ChainReturn

-----------------------------------------------------------------------------
(* Process Executor: src/resources/repo_test.py, repo_test.execute_command and *)
(* repo_test.read_stdout_to_queue_thread                                       *)

\* An optional integer: NoInt is None, <<n>> is n.
NoInt == <<>>

\* The timeouts a unit is constructed with: negative, 0 (unbounded), positive.
TimeoutValues == -1..MaxTimeout

\* A line of child output: which line it is (id), whether it carries leading or
\* trailing blanks (pad), and whether it ends with a newline (nl).
Line(k, pad) == [id |-> k, pad |-> pad, nl |-> TRUE]

\* line.strip(): blanks and the newline are removed
strip(line) == [line EXCEPT !.pad = FALSE, !.nl = FALSE]

\* line + "\n"
add_newline(line) == [line EXCEPT !.nl = TRUE]

\* Which lines a sequence holds, in order.
LineIds(seq) == [i \in 1..Len(seq) |-> seq[i].id]

Min(x, y) == IF x < y THEN x ELSE y

ExecIdle ==
    /\ timeout_seconds = 0
    /\ print_to_stdout = FALSE
    /\ test_log_open = FALSE
    /\ fp_open = FALSE
    /\ log_wanted = FALSE
    /\ pc = "idle"
    /\ rpc = "unstarted"
    /\ child = "none"
    /\ stdout_open = FALSE
    /\ emitted = <<>>
    /\ pipe = <<>>
    /\ output_queue = <<>>
    /\ console = <<>>
    /\ test_log = <<>>
    /\ cmd_log = <<>>
    /\ now = 0
    /\ returncode = NoInt
    /\ killed = FALSE
    /\ ret = NoInt

\* execute_command is entered: the unit and the context are as constructed.
ExecInit ==
    /\ timeout_seconds \in TimeoutValues
    /\ print_to_stdout \in BOOLEAN
    /\ test_log_open \in BOOLEAN
    /\ fp_open = FALSE
    /\ log_wanted = FALSE
    /\ pc = "start"
    /\ rpc = "unstarted"
    /\ child = "none"
    /\ stdout_open = FALSE
    /\ emitted = <<>>
    /\ pipe = <<>>
    /\ output_queue = <<>>
    /\ console = <<>>
    /\ test_log = <<>>
    /\ cmd_log = <<>>
    /\ now = 0
    /\ returncode = NoInt
    /\ killed = FALSE
    /\ ret = NoInt

exec_cfg   == <<timeout_seconds, print_to_stdout, test_log_open, fp_open,
                log_wanted>>
exec_sinks == <<console, test_log, cmd_log>>
exec_child == <<child, stdout_open, emitted, returncode>>

\* Lines 252-267: fp = None; with a log directory and an output filename the
\* path is built from self.log_dir, an attribute repo_test does not have, so the
\* call raises AttributeError before fp is opened; otherwise fp stays None.
ExecOpenLog ==
    /\ pc = "start"
    /\ \E log_dir_set \in BOOLEAN, filename_given \in BOOLEAN :
          /\ log_wanted' = (log_dir_set /\ filename_given)
          /\ pc' = IF log_dir_set /\ filename_given THEN "raised" ELSE "launch"
    /\ UNCHANGED <<outside_exec, timeout_seconds, print_to_stdout, test_log_open,
                   fp_open, exec_sinks, exec_child, rpc, pipe, output_queue, now,
                   killed, ret>>

\* Lines 269-276: start_time = time.time(); proc = subprocess.Popen(...), which
\* raises OSError when the command or the working directory is unusable.
ExecPopen ==
    /\ pc = "launch"
    /\ \E launched \in BOOLEAN :
          IF launched
          THEN /\ child' = "running"
               /\ stdout_open' = TRUE
               /\ pc' = "thread"
          ELSE /\ pc' = "raised"
               /\ UNCHANGED <<child, stdout_open>>
    /\ UNCHANGED <<outside_exec, exec_cfg, exec_sinks, emitted,
                   returncode, rpc, pipe, output_queue, now, killed, ret>>

\* Lines 277-279: output_queue = queue.Queue(); output_thread.start()
ExecThreadStart ==
    /\ pc = "thread"
    /\ rpc' = "reading"
    /\ pc' = "poll"
    /\ UNCHANGED <<outside_exec, exec_cfg, exec_sinks, exec_child,
                   pipe, output_queue, now, killed, ret>>

\* Where the loop goes after proc.poll(): on into the condition, or out of it.
AfterPoll(child_state) == IF child_state = "exited" THEN "communicate" ELSE "alive"

\* Where the loop goes after output_thread.is_alive().
AfterAlive(reader_state) == IF reader_state = "done" THEN "communicate" ELSE "get"

\* Line 281, first conjunct: proc.poll() is None
ExecLoopPoll ==
    /\ pc = "poll"
    /\ pc' = AfterPoll(child)
    /\ UNCHANGED <<outside_exec, exec_cfg, exec_sinks, exec_child,
                   rpc, pipe, output_queue, now, killed, ret>>

\* Line 281, second conjunct: output_thread.is_alive()
ExecLoopAlive ==
    /\ pc = "alive"
    /\ pc' = AfterAlive(rpc)
    /\ UNCHANGED <<outside_exec, exec_cfg, exec_sinks, exec_child,
                   rpc, pipe, output_queue, now, killed, ret>>

\* A relay that would put the newest line in front of the earlier ones.
RelayInFront(sink, enabled, line) == IF enabled THEN <<line>> \o sink ELSE sink

\* A sink after the relay of one line: written only when the sink is enabled.
Relay(sink, enabled, line) == IF enabled THEN Append(sink, line) ELSE sink

\* Lines 283-293: line = output_queue.get(timeout=1.0) returned a line, which
\* is written with a newline to the console, the aggregate log and fp.
ExecGetLine ==
    /\ pc = "get"
    /\ output_queue # <<>>
    /\ LET line == add_newline(Head(output_queue))
       IN  /\ console' = Relay(console, print_to_stdout, line)
           /\ test_log' = Relay(test_log, test_log_open, line)
           /\ cmd_log' = Relay(cmd_log, fp_open, line)
    /\ output_queue' = Tail(output_queue)
    /\ pc' = "timeout"
    /\ UNCHANGED <<outside_exec, exec_cfg, exec_child, rpc, pipe,
                   now, killed, ret>>

\* Lines 283, 294-296: the queue stayed empty for the 1.0 s of the get, which
\* raised queue.Empty.
ExecGetEmpty ==
    /\ pc = "get"
    /\ output_queue = <<>>
    /\ now' = Min(now + 1, MaxTime)
    /\ pc' = "timeout"
    /\ UNCHANGED <<outside_exec, exec_cfg, exec_sinks, exec_child,
                   rpc, pipe, output_queue, killed, ret>>

\* A timeout test that would not ask for a positive timeout.
TimedOutUnguarded(timeout, elapsed_time) == elapsed_time > timeout

\* Lines 297-299: the timeout has been exceeded.
TimedOut(timeout, elapsed_time) == timeout > 0 /\ elapsed_time > timeout

\* The status execute_command returns after terminating the child (line 303).
TimeoutStatus == <<1>>

\* Lines 297-303: on timeout proc.terminate() and return 1, else loop again.
ExecTimeoutCheck ==
    /\ pc = "timeout"
    /\ IF TimedOut(timeout_seconds, now)
       THEN /\ killed' = TRUE
            /\ ret' = TimeoutStatus
            /\ pc' = "returned"
       ELSE /\ pc' = "poll"
            /\ UNCHANGED <<killed, ret>>
    /\ UNCHANGED <<outside_exec, exec_cfg, exec_sinks, exec_child,
                   rpc, pipe, output_queue, now>>

\* Line 304: proc.communicate() reads what is left in the pipe and drops it; it
\* shares the pipe with the reader thread, so either of them gets each line.
ExecCommRead ==
    /\ pc = "communicate"
    /\ pipe # <<>>
    /\ pipe' = Tail(pipe)
    /\ UNCHANGED <<outside_exec, exec_cfg, exec_sinks, exec_child,
                   pc, rpc, output_queue, now, killed, ret>>

\* A return that would report the fixed status of the timeout path.
ExecCommReturnFixed ==
    /\ pc = "communicate"
    /\ pipe = <<>>
    /\ ~stdout_open
    /\ child = "exited"
    /\ ret' = <<1>>
    /\ pc' = "returned"
    /\ UNCHANGED <<outside_exec, exec_cfg, exec_sinks, exec_child,
                   rpc, pipe, output_queue, now, killed>>

\* Lines 304-305: proc.communicate() has read to end of file and waited for
\* the child; return proc.returncode.
ExecCommReturn ==
    /\ pc = "communicate"
    /\ pipe = <<>>
    /\ ~stdout_open
    /\ child = "exited"
    /\ ret' = returncode
    /\ pc' = "returned"
    /\ UNCHANGED <<outside_exec, exec_cfg, exec_sinks, exec_child,
                   rpc, pipe, output_queue, now, killed>>

\* Lines 232-234: line = proc.stdout.readline(); output_queue.put(line.strip())
ReaderRead ==
    /\ rpc = "reading"
    /\ pipe # <<>>
    /\ output_queue' = Append(output_queue, strip(Head(pipe)))
    /\ pipe' = Tail(pipe)
    /\ UNCHANGED <<outside_exec, exec_cfg, exec_sinks, exec_child,
                   pc, rpc, now, killed, ret>>

\* Lines 232, 235-236: readline returned '' (end of file): the thread ends.
ReaderEOF ==
    /\ rpc = "reading"
    /\ pipe = <<>>
    /\ ~stdout_open
    /\ rpc' = "done"
    /\ UNCHANGED <<outside_exec, exec_cfg, exec_sinks, exec_child,
                   pc, pipe, output_queue, now, killed, ret>>

\* The child writes its next line to the pipe.
ChildWrite ==
    /\ child = "running"
    /\ stdout_open
    /\ Len(emitted) < MaxLines
    /\ \E pad \in BOOLEAN :
          LET line == Line(Len(emitted) + 1, pad)
          IN  /\ emitted' = Append(emitted, line)
              /\ pipe' = Append(pipe, line)
    /\ UNCHANGED <<outside_exec, exec_cfg, exec_sinks, child,
                   stdout_open, returncode, pc, rpc, output_queue, now, killed,
                   ret>>

\* The child closes its output stream and keeps running.
ChildCloseStdout ==
    /\ child = "running"
    /\ stdout_open
    /\ stdout_open' = FALSE
    /\ UNCHANGED <<outside_exec, exec_cfg, exec_sinks, child,
                   emitted, returncode, pc, rpc, pipe, output_queue, now,
                   killed, ret>>

\* The child exits by itself with a status of its choice.
ChildExit ==
    /\ child = "running"
    /\ \E status \in 0..MaxExit : returncode' = <<status>>
    /\ child' = "exited"
    /\ stdout_open' = FALSE
    /\ UNCHANGED <<outside_exec, exec_cfg, exec_sinks, emitted, pc,
                   rpc, pipe, output_queue, now, killed, ret>>

\* The child dies of the SIGTERM that proc.terminate() sent (line 302).
ChildTerminated ==
    /\ child = "running"
    /\ killed
    /\ returncode' = <<-15>>
    /\ child' = "exited"
    /\ stdout_open' = FALSE
    /\ UNCHANGED <<outside_exec, exec_cfg, exec_sinks, emitted, pc,
                   rpc, pipe, output_queue, now, killed, ret>>

\* Wall-clock time passes while execute_command is running its child.
Tick ==
    /\ pc \in {"thread", "poll", "alive", "get", "timeout", "communicate"}
    /\ now < MaxTime
    /\ now' = now + 1
    /\ UNCHANGED <<outside_exec, exec_cfg, exec_sinks, exec_child,
                   pc, rpc, pipe, output_queue, killed, ret>>

ConsumerNext ==
    \/ ExecOpenLog \/ ExecPopen \/ ExecThreadStart \/ ExecLoopPoll \/ ExecLoopAlive
    \/ ExecGetLine \/ ExecGetEmpty \/ ExecTimeoutCheck \/ ExecCommRead
    \/ ExecCommReturn

ReaderNext == ReaderRead \/ ReaderEOF

ChildNext == ChildWrite \/ ChildCloseStdout \/ ChildExit \/ ChildTerminated

ExecNext == ConsumerNext \/ ReaderNext \/ ChildNext \/ Tick

-----------------------------------------------------------------------------
(* Follow: src/resources/repo_test.py, repo_test_follow *)

FollowIdle ==
    /\ follow_sub_tests = [u \in Units |-> <<>>]
    /\ nfollow = 0
    /\ sub_idx = 0
    /\ own_result = None
    /\ fperformed = <<>>
    /\ fpc = "idle"

\* The primary unit (unit 1) has been constructed: self.sub_tests = []
FollowInit ==
    /\ follow_sub_tests = [u \in Units |-> <<>>]
    /\ nfollow = 1
    /\ sub_idx = 0
    /\ own_result = None
    /\ fperformed = <<>>
    /\ fpc = "build"

\* repo_test_follow.add_test(self, next_test): self.sub_tests.append(next_test)
follow_add_test(self, next_test) ==
    follow_sub_tests' =
        [follow_sub_tests EXCEPT ![self] = Append(follow_sub_tests[self], next_test)]

\* The harness constructs one more follow unit and adds it as a subordinate of
\* a unit that exists: of the primary, or of one of its subordinates (nesting).
FollowAddTest ==
    /\ fpc = "build"
    /\ nfollow < NumUnits
    /\ \E self \in 1..nfollow : follow_add_test(self, nfollow + 1)
    /\ nfollow' = nfollow + 1
    /\ UNCHANGED <<sub_idx, own_result, fperformed, fpc, outside_follow>>

\* initiate_test is called on the primary: own_result = self.perform_test()
FollowInitiate ==
    /\ fpc = "build"
    /\ \E result \in perform_test(1) :
          /\ own_result' = result
          /\ fperformed' = <<result>>
    /\ sub_idx' = 1
    /\ fpc' = "loop"
    /\ UNCHANGED <<follow_sub_tests, nfollow, outside_follow>>

\* A fold that would consult abort_on_error and leave out what follows an ERROR.
FollowFoldAborting(own, sub_result) ==
    IF abort_on_error /\ own.result = ERROR THEN own ELSE CallMerged(own, sub_result)

\* How the loop body folds the subordinate's result into own_result.
FollowFold(own, sub_result) == CallMerged(own, sub_result)

\* One iteration of the for loop over self.sub_tests:
\*   sub_result = sub_test.perform_test()
\*   own_result = own_result.merged_result(sub_result)
FollowStep ==
    /\ fpc = "loop"
    /\ sub_idx <= Len(follow_sub_tests[1])
    /\ \E sub_result \in perform_test(follow_sub_tests[1][sub_idx]) :
          /\ fperformed' = Append(fperformed, sub_result)
          /\ LET merged == FollowFold(own_result, sub_result)
             IN  IF merged = TypeError
                 THEN /\ fpc' = "raised"
                      /\ UNCHANGED <<own_result, sub_idx>>
                 ELSE /\ own_result' = merged
                      /\ sub_idx' = sub_idx + 1
                      /\ fpc' = fpc
    /\ UNCHANGED <<follow_sub_tests, nfollow, outside_follow>>

\* the list is exhausted: return own_result
FollowReturn ==
    /\ fpc = "loop"
    /\ sub_idx > Len(follow_sub_tests[1])
    /\ fpc' = "returned"
    /\ UNCHANGED <<follow_sub_tests, nfollow, sub_idx, own_result, fperformed,
                   outside_follow>>

FollowNext == FollowAddTest \/ FollowInitiate \/ FollowStep \/ FollowReturn

-----------------------------------------------------------------------------
(* Group: src/resources/repo_test_suite.py, repo_test_group, with the      *)
(* suite operations that fill the master group repo_tests; its members are *)
(* make_test units (src/resources/repo_test.py, make_test)                 *)

\* The group object itself, as the unit its Result names.
GroupSelf == 0

\* An exception raised by subprocess.Popen: the command cannot be launched or
\* the working directory cannot be used.
OSError == [tag |-> "OSError"]

\* What execute_command does for a make_test (no per-command file name is
\* passed): Popen raises, or the call returns a status.
ReturnVal(status) == [tag |-> "status", code |-> status]
ExecOutcomes == {OSError} \cup {ReturnVal(status) : status \in 0..MaxExit}

success_result(self, msg) == repo_test_result(self, SUCCESS, msg)
warning_result(self, msg) == repo_test_result(self, WARNING, msg)
error_result(self, msg) == repo_test_result(self, ERROR, msg)

\* make_test.perform_test: a missing required input file gives error_result
\* before anything is run; otherwise execute_command is called, with no
\* exception handler around it; a non-zero status gives error_result, missing
\* build files give warning_result with a message, else success_result.
make_perform_test(self, inputs_exist, make_return_val, missing_build_files) ==
    IF ~inputs_exist THEN error_result(self, NoMsg)
    ELSE IF make_return_val = OSError THEN OSError
    ELSE IF make_return_val.code # 0 THEN error_result(self, NoMsg)
    ELSE IF missing_build_files
         THEN warning_result(self, <<"Missing build files">>)
         ELSE success_result(self, NoMsg)

\* initiate_test of a member: a make_test is a Follow without subordinates in
\* the groups of the suite, so its initiate_test is own_result = perform_test()
\* followed by an empty loop; an exception of perform_test passes through.
member_initiate_test(self, inputs_exist, make_return_val, missing_build_files) ==
    make_perform_test(self, inputs_exist, make_return_val, missing_build_files)

\* The values of add_test's position argument: None or an integer.
PositionValues == {NoInt} \cup {<<position>> : position \in -1..MaxMembers}

GroupIdle ==
    /\ sub_tests = <<>>
    /\ makefile_tests = <<>>
    /\ result_dict = <<>>
    /\ ngroup = 0
    /\ test_idx = 0
    /\ ginvoked = <<>>
    /\ group_result = None
    /\ ninvoke = 0
    /\ absorbed = FALSE
    /\ summary = <<>>
    /\ gpc = "idle"

\* Both groups have been constructed: sub_tests = [], result_dict = {}
GroupInit ==
    /\ sub_tests = <<>>
    /\ makefile_tests = <<>>
    /\ result_dict = <<>>
    /\ ngroup = 0
    /\ test_idx = 0
    /\ ginvoked = <<>>
    /\ group_result = None
    /\ ninvoke = 0
    /\ absorbed = FALSE
    /\ summary = <<>>
    /\ gpc = "build"

\* The group code is between two calls of run_tests.
GroupAtRest == gpc \in {"build", "summarised"}

\* An add_test that would insert behind the member at the index given.
add_test_behind(tests, rtest, position) ==
    IF position # NoInt /\ position[1] >= 0 /\ position[1] < Len(tests)
    THEN SubSeq(tests, 1, position[1] + 1) \o <<rtest>>
             \o SubSeq(tests, position[1] + 2, Len(tests))
    ELSE Append(tests, rtest)

\* repo_test_group.add_test(rtest, position): list.insert when position is an
\* index of the list, list.append otherwise.
add_test(tests, rtest, position) ==
    IF position # NoInt /\ position[1] >= 0 /\ position[1] < Len(tests)
    THEN SubSeq(tests, 1, position[1]) \o <<rtest>>
             \o SubSeq(tests, position[1] + 1, Len(tests))
    ELSE Append(tests, rtest)

\* An add_group that would put the members of the other group in front.
add_group_in_front(tests, rtest_group) == rtest_group \o tests

\* repo_test_group.add_group(rtest_group):
\*   for test in rtest_group.sub_tests: self.sub_tests.append(test)
RECURSIVE add_group(_, _)
add_group(tests, rtest_group) ==
    IF rtest_group = <<>> THEN tests
    ELSE add_group(Append(tests, Head(rtest_group)), Tail(rtest_group))

\* repo_test_group.getTest(test_name): the first member of that name, None
\* (the empty tuple) when there is none.
getTest(tests, test_name) ==
    IF \E i \in 1..Len(tests) : getName(tests[i]) = test_name
    THEN LET first == CHOOSE i \in 1..Len(tests) :
                          /\ getName(tests[i]) = test_name
                          /\ \A j \in 1..(i - 1) : getName(tests[j]) # test_name
         IN  <<tests[first]>>
    ELSE NoInt

\* A new unit is constructed and added to the master group (add_clean_test,
\* add_repo_tests; add_test with a position).
GroupAddTest ==
    /\ GroupAtRest
    /\ ngroup < NumUnits
    /\ Len(sub_tests) < MaxMembers
    /\ \E position \in PositionValues :
          sub_tests' = add_test(sub_tests, ngroup + 1, position)
    /\ ngroup' = ngroup + 1
    /\ gpc' = "build"
    /\ UNCHANGED <<makefile_tests, result_dict, test_idx, ginvoked, group_result,
                   ninvoke, absorbed, summary, outside_group>>

\* repo_test_suite.add_makefile_test: a new make_test is constructed and
\* appended to the group makefile_tests.
GroupAddMakefileTest ==
    /\ GroupAtRest
    /\ ngroup < NumUnits
    /\ makefile_tests' = add_test(makefile_tests, ngroup + 1, NoInt)
    /\ ngroup' = ngroup + 1
    /\ gpc' = "build"
    /\ UNCHANGED <<sub_tests, result_dict, test_idx, ginvoked, group_result,
                   ninvoke, absorbed, summary, outside_group>>

\* repo_test_suite.add_makefile_tests: self.repo_tests.add_group(makefile_tests)
GroupAddMakefileTests ==
    /\ GroupAtRest
    /\ Len(makefile_tests) > 0
    /\ Len(sub_tests) + Len(makefile_tests) <= MaxMembers
    /\ sub_tests' = add_group(sub_tests, makefile_tests)
    /\ absorbed' = TRUE
    /\ gpc' = "build"
    /\ UNCHANGED <<makefile_tests, result_dict, ngroup, test_idx, ginvoked,
                   group_result, ninvoke, summary, outside_group>>

\* run_tests: repo_tests.initiate_test() is called and the for loop starts.
GroupInitiate ==
    /\ GroupAtRest
    /\ ninvoke < MaxInvokes
    /\ ninvoke' = ninvoke + 1
    /\ test_idx' = 1
    /\ ginvoked' = <<>>
    /\ summary' = <<>>
    /\ gpc' = "loop"
    /\ UNCHANGED <<sub_tests, makefile_tests, result_dict, ngroup, group_result,
                   absorbed, outside_group>>

\* self.result_dict[test] = result: the value of an existing key is replaced
\* in place, a new key is added at the end.
DictSet(dict, test, result) ==
    IF \E i \in 1..Len(dict) : dict[i].test = test
    THEN [i \in 1..Len(dict) |->
             IF dict[i].test = test THEN [test |-> test, result |-> result]
             ELSE dict[i]]
    ELSE Append(dict, [test |-> test, result |-> result])

\* One iteration of the for loop over self.sub_tests:
\*   result = test.initiate_test()
\*   self.result_dict[test] = result
\* An exception raised by the member leaves the loop and initiate_test.
GroupStep ==
    /\ gpc = "loop"
    /\ test_idx <= Len(sub_tests)
    /\ LET test == sub_tests[test_idx]
       IN  \E inputs_exist \in BOOLEAN, make_return_val \in ExecOutcomes,
              missing_build_files \in BOOLEAN :
              LET result == member_initiate_test(test, inputs_exist, make_return_val,
                                                 missing_build_files)
              IN  /\ ginvoked' = Append(ginvoked, [test |-> test, result |-> result])
                  /\ IF result = OSError
                     THEN /\ gpc' = "raised"
                          /\ UNCHANGED <<result_dict, test_idx>>
                     ELSE /\ result_dict' = DictSet(result_dict, test, result)
                          /\ test_idx' = test_idx + 1
                          /\ gpc' = gpc
    /\ UNCHANGED <<sub_tests, makefile_tests, ngroup, group_result, ninvoke,
                   absorbed, summary, outside_group>>

\* repo_test_result.__str__
str(result) ==
    (CASE result.result = SUCCESS -> "Success: "
       [] result.result = WARNING -> "Warning: "
       [] OTHER -> "Error: ") \o getName(result.test)

\* The loop of getResult over the first n entries of result_dict.items():
\* the severity and the message accumulated so far.
RECURSIVE getResultLoop(_, _)
getResultLoop(dict, n) ==
    IF n = 0 THEN [cur_result |-> SUCCESS, cur_msg |-> ""]
    ELSE LET before == getResultLoop(dict, n - 1)
             result == dict[n].result
         IN  [cur_result |->
                  IF result.result = ERROR THEN ERROR
                  ELSE IF result.result = WARNING /\ before.cur_result # ERROR
                       THEN WARNING
                       ELSE before.cur_result,
              cur_msg |-> before.cur_msg \o str(result) \o "\n"]

\* repo_test_group.getResult
getResult(dict) ==
    LET final == getResultLoop(dict, Len(dict))
    IN  repo_test_result(GroupSelf, final.cur_result, <<final.cur_msg>>)

\* the list is exhausted: return self.getResult()
GroupReturn ==
    /\ gpc = "loop"
    /\ test_idx > Len(sub_tests)
    /\ group_result' = getResult(result_dict)
    /\ gpc' = "returned"
    /\ UNCHANGED <<sub_tests, makefile_tests, result_dict, ngroup, test_idx,
                   ginvoked, ninvoke, absorbed, summary,
                   outside_group>>

\* make_test.module_name of a unit without required files.
module_name(test) == "Makefile: 'make " \o getName(test) \o "'"

\* The results of the first n entries of result_dict that have severity s, in
\* the order of the table.
RECURSIVE EntriesOf(_, _, _)
EntriesOf(dict, n, s) ==
    IF n = 0 THEN <<>>
    ELSE EntriesOf(dict, n - 1, s)
             \o (IF dict[n].result.result = s THEN <<dict[n].result>> ELSE <<>>)

\* The lines printed for the results of one category: module_name() of the
\* unit and, when the result has a message, the message.
RECURSIVE EntryLines(_, _)
EntryLines(results, n) ==
    IF n = 0 THEN <<>>
    ELSE EntryLines(results, n - 1)
             \o <<"  " \o module_name(results[n].test)>>
             \o (IF results[n].msg # NoMsg THEN <<"   " \o results[n].msg[1]>> ELSE <<>>)

\* A print_test_summary that would count a warning as an error.
print_test_summary_lumped(dict) ==
    LET errors == EntriesOf(dict, Len(dict), WARNING) \o EntriesOf(dict, Len(dict), ERROR)
    IN  IF Len(errors) = 0
        THEN <<"  No errors or warnings">>
        ELSE <<" " \o ToString(Len(errors)) \o " Errors">> \o EntryLines(errors, Len(errors))

\* repo_test_group.print_test_summary: the lines it prints, in order.
print_test_summary(dict) ==
    LET warnings == EntriesOf(dict, Len(dict), WARNING)
        errors == EntriesOf(dict, Len(dict), ERROR)
    IN  IF Len(warnings) = 0 /\ Len(errors) = 0
        THEN <<"  No errors or warnings">>
        ELSE (IF Len(warnings) # 0
              THEN <<" " \o ToString(Len(warnings)) \o " Warnings">>
                       \o EntryLines(warnings, Len(warnings))
              ELSE <<>>)
             \o (IF Len(errors) # 0
                 THEN <<" " \o ToString(Len(errors)) \o " Errors">>
                          \o EntryLines(errors, Len(errors))
                 ELSE <<>>)

\* run_tests, after initiate_test has returned:
\*   self.repo_tests.print_test_summary()
GroupPrintSummary ==
    /\ gpc = "returned"
    /\ summary' = print_test_summary(result_dict)
    /\ gpc' = "summarised"
    /\ UNCHANGED <<sub_tests, makefile_tests, result_dict, ngroup, test_idx,
                   ginvoked, group_result, ninvoke, absorbed, outside_group>>

GroupNext ==
    \/ GroupAddTest
    \/ GroupAddMakefileTest
    \/ GroupAddMakefileTests
    \/ GroupInitiate
    \/ GroupStep
    \/ GroupReturn
    \/ GroupPrintSummary

-----------------------------------------------------------------------------
(* One call of repo_test_group.add_test on a group of any members *)

\* The lists of at most n members of S; a unit may be a member more than once.
ListsOf(S, n) == UNION {[1..k -> S] : k \in 0..n}

AddIdle ==
    /\ arg_tests = <<>>
    /\ arg_rtest = 0
    /\ arg_position = NoInt
    /\ add_out = <<>>
    /\ apc = "idle"

\* add_test is about to be called with any unit, on a group of any members in
\* any order, with any position.
AddInit ==
    /\ arg_rtest \in Units
    /\ arg_tests \in ListsOf(Units, MaxMembers)
    /\ arg_position \in PositionValues
    /\ add_out = <<>>
    /\ apc = "start"

\* self.add_test(rtest, position)
AddTestCall ==
    /\ apc = "start"
    /\ add_out' = add_test(arg_tests, arg_rtest, arg_position)
    /\ apc' = "done"
    /\ UNCHANGED <<arg_tests, arg_rtest, arg_position, outside_add>>

AddNext == AddTestCall

-----------------------------------------------------------------------------
(* repo_test.cleanup of one unit, called any number of times *)

\* The paths of the file system: files the unit has recorded and files of
\* other units.
Paths == 1..NumPaths

\* The outcome of a cleanup: the paths that exist afterwards, and whether an
\* exception left the call.
CleanOutcome(files, raised) == [files |-> files, raised |-> raised]

\* os.remove(file): FileNotFoundError when the path does not exist.
os_remove(files, file) ==
    IF file \in files THEN CleanOutcome(files \ {file}, FALSE)
    ELSE CleanOutcome(files, TRUE)

\* A cleanup that would call os.remove without asking os.path.exists.
RECURSIVE cleanup_unchecked(_, _)
cleanup_unchecked(to_delete, files) ==
    IF to_delete = <<>> THEN CleanOutcome(files, FALSE)
    ELSE LET removed == os_remove(files, Head(to_delete))
         IN  IF removed.raised THEN removed
             ELSE cleanup_unchecked(Tail(to_delete), removed.files)

\* repo_test.cleanup:
\*   for file in self.files_to_delete:
\*       if os.path.exists(file): os.remove(file)
RECURSIVE cleanup(_, _)
cleanup(to_delete, files) ==
    IF to_delete = <<>> THEN CleanOutcome(files, FALSE)
    ELSE LET file == Head(to_delete)
             removed == IF file \in files THEN os_remove(files, file)
                        ELSE CleanOutcome(files, FALSE)
         IN  IF removed.raised THEN removed
             ELSE cleanup(Tail(to_delete), removed.files)

CleanIdle ==
    /\ files_to_delete = <<>>
    /\ existing = {}
    /\ cleanups = <<>>
    /\ klpc = "idle"

\* A unit with any list of recorded paths (empty when it never ran; a path may
\* be recorded more than once), in a file system where any of the paths exist.
CleanInit ==
    /\ files_to_delete \in ListsOf(Paths, MaxRecorded)
    /\ existing \in SUBSET Paths
    /\ cleanups = <<>>
    /\ klpc = "ready"

\* self.cleanup()
CleanupCall ==
    /\ klpc = "ready"
    /\ Len(cleanups) < MaxCleanups
    /\ LET outcome == cleanup(files_to_delete, existing)
       IN  /\ existing' = outcome.files
           /\ cleanups' = Append(cleanups, [before |-> existing,
                                            after |-> outcome.files,
                                            raised |-> outcome.raised])
           /\ klpc' = IF outcome.raised THEN "raised" ELSE "ready"
    /\ UNCHANGED <<files_to_delete, outside_clean>>

CleanNext == CleanupCall

-----------------------------------------------------------------------------
(* One call of make_test.perform_test *)

\* The unit whose perform_test is called.
MakeSelf == 1

\* A required-files argument: None (the empty tuple) or a list of paths.
RequiredValues == {NoInt} \cup {<<files>> : files \in ListsOf(Paths, MaxRequired)}

\* self.required_..._files is not None and len(...) > 0
HasRequired(required) == required # NoInt /\ Len(required[1]) > 0

\* The calls perform_test makes that the properties speak of.
ExistsCall(kind, file) == [call |-> "os.path.exists", kind |-> kind, file |-> file]
ExecuteCall == [call |-> "execute_command", kind |-> "make", file |-> 0]

\* The loop over required_input_files: os.path.exists is asked file by file
\* and the first missing file ends the loop and the call.
RECURSIVE InputChecks(_, _)
InputChecks(required, files) ==
    IF required = <<>> THEN <<>>
    ELSE <<ExistsCall("input", Head(required))>>
             \o (IF Head(required) \in files THEN InputChecks(Tail(required), files)
                 ELSE <<>>)

\* The loop over required_build_files: os.path.exists is asked for every file.
BuildChecks(required) == [i \in 1..Len(required) |-> ExistsCall("build", required[i])]

\* missing_build_files: the required build files that do not exist, in order.
MissingOf(required, files) == SelectSeq(required, LAMBDA file : file \notin files)

\* The text of a Python list of paths.
RECURSIVE ListItems(_)
ListItems(paths) ==
    IF paths = <<>> THEN ""
    ELSE "'p" \o ToString(Head(paths)) \o "'"
             \o (IF Len(paths) > 1 THEN ", " ELSE "") \o ListItems(Tail(paths))
ListText(paths) == "[" \o ListItems(paths) \o "]"

\* What a call of perform_test did: its calls and what it returned or raised.
MakeOutcome(calls, result) == [calls |-> calls, result |-> result]

\* A perform_test that would report missing build files as an error.
perform_test_make_strict(self, inputs, builds, files, return_val, files_after) ==
    LET input_calls == IF HasRequired(inputs) THEN InputChecks(inputs[1], files) ELSE <<>>
        input_missing == HasRequired(inputs) /\ MissingOf(inputs[1], files) # <<>>
        build_calls == IF HasRequired(builds) THEN BuildChecks(builds[1]) ELSE <<>>
        missing_build_files ==
            IF HasRequired(builds) THEN MissingOf(builds[1], files_after) ELSE <<>>
    IN  IF input_missing THEN MakeOutcome(input_calls, error_result(self, NoMsg))
        ELSE IF return_val = OSError
        THEN MakeOutcome(input_calls \o <<ExecuteCall>>, OSError)
        ELSE IF return_val.code # 0
        THEN MakeOutcome(input_calls \o <<ExecuteCall>>, error_result(self, NoMsg))
        ELSE MakeOutcome(input_calls \o <<ExecuteCall>> \o build_calls,
                 IF Len(missing_build_files) > 0
                 THEN error_result(self,
                          <<"Missing build files: " \o ListText(missing_build_files)>>)
                 ELSE success_result(self, NoMsg))

\* A perform_test that would run the rule whatever the input files.
perform_test_make_unguarded(self, inputs, builds, files, return_val, files_after) ==
    LET input_calls == IF HasRequired(inputs) THEN InputChecks(inputs[1], files) ELSE <<>>
        build_calls == IF HasRequired(builds) THEN BuildChecks(builds[1]) ELSE <<>>
        missing_build_files ==
            IF HasRequired(builds) THEN MissingOf(builds[1], files_after) ELSE <<>>
    IN  IF return_val = OSError
        THEN MakeOutcome(input_calls \o <<ExecuteCall>>, OSError)
        ELSE IF return_val.code # 0
        THEN MakeOutcome(input_calls \o <<ExecuteCall>>, error_result(self, NoMsg))
        ELSE MakeOutcome(input_calls \o <<ExecuteCall>> \o build_calls,
                 IF Len(missing_build_files) > 0
                 THEN warning_result(self,
                          <<"Missing build files: " \o ListText(missing_build_files)>>)
                 ELSE success_result(self, NoMsg))

\* make_test.perform_test, with the working directory before the call (files)
\* and what execute_command gave and left behind (return_val,
\* files_after):
\*   a missing required input file: error_result(), nothing is run;
\*   make_return_val = self.execute_command(...), no handler around it;
\*   make_return_val != 0: error_result();
\*   the required build files are looked up; some missing: warning_result with
\*   the list in the message; none missing: success_result().
perform_test_make(self, inputs, builds, files, return_val, files_after) ==
    LET input_calls == IF HasRequired(inputs) THEN InputChecks(inputs[1], files) ELSE <<>>
        input_missing == HasRequired(inputs) /\ MissingOf(inputs[1], files) # <<>>
        build_calls == IF HasRequired(builds) THEN BuildChecks(builds[1]) ELSE <<>>
        missing_build_files ==
            IF HasRequired(builds) THEN MissingOf(builds[1], files_after) ELSE <<>>
    IN  IF input_missing THEN MakeOutcome(input_calls, error_result(self, NoMsg))
        ELSE IF return_val = OSError
        THEN MakeOutcome(input_calls \o <<ExecuteCall>>, OSError)
        ELSE IF return_val.code # 0
        THEN MakeOutcome(input_calls \o <<ExecuteCall>>, error_result(self, NoMsg))
        ELSE MakeOutcome(input_calls \o <<ExecuteCall>> \o build_calls,
                 IF Len(missing_build_files) > 0
                 THEN warning_result(self,
                          <<"Missing build files: " \o ListText(missing_build_files)>>)
                 ELSE success_result(self, NoMsg))

MakeIdle ==
    /\ required_input_files = NoInt
    /\ required_build_files = NoInt
    /\ make_files = {}
    /\ mk_return_val = None
    /\ make_calls = <<>>
    /\ make_result = None
    /\ mkpc = "idle"

\* A make_test constructed with any required files, in any working directory.
MakeInit ==
    /\ required_input_files \in RequiredValues
    /\ required_build_files \in RequiredValues
    /\ make_files \in SUBSET Paths
    /\ mk_return_val = None
    /\ make_calls = <<>>
    /\ make_result = None
    /\ mkpc = "ready"

\* self.perform_test(): execute_command raises or returns a status, and the
\* rule it ran has created and deleted files as it liked.
MakePerformTest ==
    /\ mkpc = "ready"
    /\ \E return_val \in ExecOutcomes, files_after \in SUBSET Paths :
          LET outcome == perform_test_make(MakeSelf, required_input_files,
                                           required_build_files, make_files,
                                           return_val, files_after)
              launched == \E i \in 1..Len(outcome.calls) : outcome.calls[i] = ExecuteCall
          IN  /\ mk_return_val' = IF launched THEN return_val ELSE None
              /\ make_calls' = outcome.calls
              /\ make_result' = outcome.result
              /\ make_files' = IF launched THEN files_after ELSE make_files
              /\ mkpc' = IF outcome.result = OSError THEN "raised" ELSE "returned"
    /\ UNCHANGED <<required_input_files, required_build_files, outside_make>>

MakeNext == MakePerformTest

-----------------------------------------------------------------------------
(* repo_test_suite.check_commit_date: the polling loop after a submission *)

\* The defaults of check_commit_date's parameters, in seconds.
check_timeout == 30
check_sleep_time == 3

\* The clock is followed until the timeout test can no longer change.
MaxElapsed == check_timeout + 2 * check_sleep_time

\* time.sleep(seconds)
AfterSleep(time, seconds) == Min(time + seconds, MaxElapsed)

\* repo_test.get_remote_tags(): subprocess.run is called without check=True,
\* so it raises no CalledProcessError and the function returns True.
get_remote_tags == TRUE

CommitIdle ==
    /\ first_time = TRUE
    /\ elapsed = 0
    /\ tag_present = FALSE
    /\ commit_file = FALSE
    /\ check_status = NoInt
    /\ cdpc = "idle"

\* check_commit_date is entered: initial_time = time.time(); first_time = True.
\* The tag may be in the repository or not, with or without its file.
CommitInit ==
    /\ first_time = TRUE
    /\ elapsed = 0
    /\ tag_present \in BOOLEAN
    /\ commit_file \in BOOLEAN
    /\ commit_file => tag_present
    /\ check_status = NoInt
    /\ cdpc = "top"

\* Lines 343-347: the wait at the top of the loop, made when first_time is
\* False; first_time is only assigned inside this branch.
CdTop ==
    /\ cdpc = "top"
    /\ IF ~first_time
       THEN /\ elapsed' = AfterSleep(elapsed, check_sleep_time)
            /\ first_time' = FALSE
       ELSE UNCHANGED <<elapsed, first_time>>
    /\ cdpc' = "fetch_tags"
    /\ UNCHANGED <<tag_present, commit_file, check_status, outside_commit>>

\* Lines 349-352: result = repo_test.get_remote_tags(); return False on failure
CdFetchTags ==
    /\ cdpc = "fetch_tags"
    /\ IF get_remote_tags
       THEN /\ cdpc' = "find_tag"
            /\ UNCHANGED check_status
       ELSE /\ cdpc' = "returned"
            /\ check_status' = <<FALSE>>
    /\ UNCHANGED <<first_time, elapsed, tag_present, commit_file, outside_commit>>

\* Lines 353-357: the tag is looked up in self.repo.tags; when it is not there:
\* time.sleep(check_sleep_time); continue
CdFindTag ==
    /\ cdpc = "find_tag"
    /\ IF tag_present
       THEN /\ cdpc' = "fetch_remote"
            /\ UNCHANGED elapsed
       ELSE /\ elapsed' = AfterSleep(elapsed, check_sleep_time)
            /\ cdpc' = "top"
    /\ UNCHANGED <<first_time, tag_present, commit_file, check_status,
                   outside_commit>>

\* Line 359: repo_test.fetch_remote(self.repo), which raises when the fetch
\* fails.
CdFetchRemote ==
    /\ cdpc = "fetch_remote"
    /\ \E fetched \in BOOLEAN : cdpc' = IF fetched THEN "read_file" ELSE "raised"
    /\ UNCHANGED <<first_time, elapsed, tag_present, commit_file, check_status,
                   outside_commit>>

\* Lines 361-369: the .commitdate file of the tagged commit is read; when it
\* is there: return True
CdReadFile ==
    /\ cdpc = "read_file"
    /\ IF commit_file
       THEN /\ cdpc' = "returned"
            /\ check_status' = <<TRUE>>
       ELSE /\ cdpc' = "check_timeout"
            /\ UNCHANGED check_status
    /\ UNCHANGED <<first_time, elapsed, tag_present, commit_file, outside_commit>>

\* Lines 372-376: return False when more than check_timeout seconds have
\* passed, else time.sleep(check_sleep_time) and the next iteration.
CdCheckTimeout ==
    /\ cdpc = "check_timeout"
    /\ IF elapsed > check_timeout
       THEN /\ cdpc' = "returned"
            /\ check_status' = <<FALSE>>
            /\ UNCHANGED elapsed
       ELSE /\ elapsed' = AfterSleep(elapsed, check_sleep_time)
            /\ cdpc' = "top"
            /\ UNCHANGED check_status
    /\ UNCHANGED <<first_time, tag_present, commit_file, outside_commit>>

\* The steps of check_commit_date.
CdCode ==
    \/ CdTop
    \/ CdFetchTags
    \/ CdFindTag
    \/ CdFetchRemote
    \/ CdReadFile
    \/ CdCheckTimeout

CdRunning == cdpc \notin {"idle", "returned", "raised"}

\* The tag reaches the repository while the loop runs.
TagAppears ==
    /\ CdRunning
    /\ ~tag_present
    /\ tag_present' = TRUE
    /\ UNCHANGED <<first_time, elapsed, commit_file, check_status, cdpc,
                   outside_commit>>

\* The server adds the .commitdate file to the tagged commit.
CommitFileAppears ==
    /\ CdRunning
    /\ tag_present
    /\ ~commit_file
    /\ commit_file' = TRUE
    /\ UNCHANGED <<first_time, elapsed, tag_present, check_status, cdpc,
                   outside_commit>>

CommitNext == CdCode \/ TagAppears \/ CommitFileAppears

-----------------------------------------------------------------------------
(* repo_test_suite.run_main with the options build, check_repo and submit *)

\* The options of run_main that add members to the master group or run it.
RunTimeArgs == [build : BOOLEAN, noclean : BOOLEAN, check_repo : BOOLEAN,
                submit : BOOLEAN]

MainIdle ==
    /\ run_time_args = [build |-> FALSE, noclean |-> FALSE, check_repo |-> FALSE,
                        submit |-> FALSE]
    /\ build_steps = <<>>
    /\ main_tests = <<>>
    /\ main_dict = <<>>
    /\ main_nunits = 0
    /\ unit_class = <<>>
    /\ main_idx = 0
    /\ run_returned = {}
    /\ executions = <<>>
    /\ run_result = None
    /\ submit_called = FALSE
    /\ stage = "none"
    /\ mnpc = "idle"

\* run_main is entered: the lab script has registered its build rules with
\* add_makefile_test (units 1..n), the master group is empty.
MainInit ==
    /\ run_time_args \in RunTimeArgs
    /\ \E n \in 1..MaxRules : /\ build_steps = [i \in 1..n |-> i]
                               /\ main_nunits = n
                               /\ unit_class = [i \in 1..n |-> "build_rule"]
    /\ main_tests = <<>>
    /\ main_dict = <<>>
    /\ main_idx = 0
    /\ run_returned = {}
    /\ executions = <<>>
    /\ run_result = None
    /\ submit_called = FALSE
    /\ stage = "none"
    /\ mnpc = "build"

\* A group after n units constructed on the spot (numbered from first) have
\* been added by add_test without a position.
RECURSIVE AddNew(_, _, _)
AddNew(tests, first, n) ==
    IF n = 0 THEN tests
    ELSE AddNew(add_test(tests, first, NoInt), first + 1, n - 1)

\* add_clean_test: one new make_test("clean") is added.
add_clean_test(tests, first) == AddNew(tests, first, 1)

\* What add_clean_test constructs.
CleanUnits == <<"clean_rule">>

\* add_repo_tests in a suite without file lists, limit or starter remote: a
\* new check_for_uncommitted_files and a new check_remote_origin are added.
add_repo_tests(tests, first) == AddNew(tests, first, 2)

\* What add_repo_tests constructs.
RepoUnits == <<"check_for_uncommitted_files", "check_remote_origin">>

\* run_tests is entered: repo_tests.initiate_test() starts its for loop.
StartRun(option) ==
    /\ main_idx' = 1
    /\ run_returned' = {}
    /\ stage' = option
    /\ mnpc' = "loop"

\* Lines 405-411: the build option
MainBuild ==
    /\ mnpc = "build"
    /\ IF run_time_args.build
       THEN LET cleaned == IF run_time_args.noclean THEN main_tests
                           ELSE add_clean_test(main_tests, main_nunits + 1)
            IN  /\ main_tests' = add_group(cleaned, build_steps)
                /\ main_nunits' = main_nunits + (Len(cleaned) - Len(main_tests))
                /\ unit_class' = IF run_time_args.noclean THEN unit_class
                                 ELSE unit_class \o CleanUnits
                /\ StartRun("build")
       ELSE /\ mnpc' = "check_repo"
            /\ UNCHANGED <<main_tests, main_nunits, unit_class, main_idx, run_returned,
                           stage>>
    /\ UNCHANGED <<run_time_args, build_steps, main_dict, executions, run_result,
                   submit_called, outside_main>>

\* Lines 413-415: the check_repo option
MainCheckRepo ==
    /\ mnpc = "check_repo"
    /\ IF run_time_args.check_repo
       THEN /\ main_tests' = add_repo_tests(main_tests, main_nunits + 1)
            /\ main_nunits' = main_nunits + 2
            /\ unit_class' = unit_class \o RepoUnits
            /\ StartRun("check_repo")
       ELSE /\ mnpc' = "submit"
            /\ UNCHANGED <<main_tests, main_nunits, unit_class, main_idx, run_returned,
                           stage>>
    /\ UNCHANGED <<run_time_args, build_steps, main_dict, executions, run_result,
                   submit_called, outside_main>>

\* Lines 419-428: the submit option: add_clean_test, add_makefile_tests,
\* add_clean_test, add_repo_tests, run_tests
MainSubmit ==
    /\ mnpc = "submit"
    /\ IF run_time_args.submit
       THEN LET cleaned == add_clean_test(main_tests, main_nunits + 1)
                built == add_group(cleaned, build_steps)
                cleaned_again == add_clean_test(built, main_nunits + 2)
            IN  /\ main_tests' = add_repo_tests(cleaned_again, main_nunits + 3)
                /\ main_nunits' = main_nunits + 4
                /\ unit_class' = unit_class \o CleanUnits \o CleanUnits \o RepoUnits
                /\ StartRun("submit")
       ELSE /\ mnpc' = "done"
            /\ UNCHANGED <<main_tests, main_nunits, unit_class, main_idx, run_returned,
                           stage>>
    /\ UNCHANGED <<run_time_args, build_steps, main_dict, executions, run_result,
                   submit_called, outside_main>>

\* The results perform_test of each class of unit returns: a make_test
\* without required files never warns, check_for_uncommitted_files never
\* fails.
Returns(class) ==
    CASE class = "clean_rule" -> {SUCCESS, ERROR}
      [] class = "check_for_uncommitted_files" -> {SUCCESS, WARNING}
      [] OTHER -> result_type

\* What initiate_test of a member gives: a Result of the member, or the
\* OSError of a make command that could not be launched.
MemberOutcomes(test, class) ==
    {repo_test_result(test, s, NoMsg) : s \in Returns(class)}
        \cup (IF class \in {"build_rule", "clean_rule"} THEN {OSError} ELSE {})

\* One iteration of the for loop of repo_tests.initiate_test:
\*   result = test.initiate_test(); self.result_dict[test] = result
MainStep ==
    /\ mnpc = "loop"
    /\ main_idx <= Len(main_tests)
    /\ LET test == main_tests[main_idx]
       IN  \E result \in MemberOutcomes(test, unit_class[test]) :
              /\ executions' = Append(executions, test)
              /\ IF result = OSError
                 THEN /\ mnpc' = "raised"
                      /\ UNCHANGED <<main_dict, main_idx, run_returned>>
                 ELSE /\ main_dict' = DictSet(main_dict, test, result)
                      /\ run_returned' = run_returned \cup {result.result}
                      /\ main_idx' = main_idx + 1
                      /\ mnpc' = mnpc
    /\ UNCHANGED <<run_time_args, build_steps, main_tests, main_nunits, unit_class,
                   run_result, submit_called, stage, outside_main>>

\* Where run_main goes on when the run_tests of an option has returned.
AfterRun(option) ==
    CASE option = "build" -> "check_repo"
      [] option = "check_repo" -> "submit"
      [] OTHER -> "decide"

\* The loop is exhausted: initiate_test returns self.getResult(), the summary
\* is printed and run_tests returns the Result.
MainRunReturn ==
    /\ mnpc = "loop"
    /\ main_idx > Len(main_tests)
    /\ run_result' = getResult(main_dict)
    /\ mnpc' = AfterRun(stage)
    /\ UNCHANGED <<run_time_args, build_steps, main_tests, main_dict, main_nunits,
                   unit_class, main_idx, run_returned, executions, submit_called, stage,
                   outside_main>>

\* Lines 429-437: if result.result == result_type.SUCCESS: submit_lab(...) and
\* check_commit_date(...)
MainSubmitLab ==
    /\ mnpc = "decide"
    /\ submit_called' = (run_result.result = SUCCESS)
    /\ mnpc' = "done"
    /\ UNCHANGED <<run_time_args, build_steps, main_tests, main_dict, main_nunits,
                   unit_class, main_idx, run_returned, executions, run_result, stage,
                   outside_main>>

MainNext ==
    \/ MainBuild
    \/ MainCheckRepo
    \/ MainSubmit
    \/ MainStep
    \/ MainRunReturn
    \/ MainSubmitLab

-----------------------------------------------------------------------------
(* Specifications *)

\* repo_test.__init__: self.abort_on_error = abort_on_error, True by default;
\* the units of a composite are constructed with it true or with it false.
DefaultFlag == abort_on_error = TRUE
AnyFlag == abort_on_error \in BOOLEAN

InitMerge  ==
    MergeInit /\ ChainIdle /\ ExecIdle /\ FollowIdle /\ GroupIdle /\ AddIdle /\ CleanIdle /\ MakeIdle /\ CommitIdle /\ MainIdle
        /\ DefaultFlag
InitChain  ==
    MergeIdle /\ ChainInit /\ ExecIdle /\ FollowIdle /\ GroupIdle /\ AddIdle /\ CleanIdle /\ MakeIdle /\ CommitIdle /\ MainIdle
        /\ AnyFlag
InitExec   ==
    MergeIdle /\ ChainIdle /\ ExecInit /\ FollowIdle /\ GroupIdle /\ AddIdle /\ CleanIdle /\ MakeIdle /\ CommitIdle /\ MainIdle
        /\ DefaultFlag
InitFollow ==
    MergeIdle /\ ChainIdle /\ ExecIdle /\ FollowInit /\ GroupIdle /\ AddIdle /\ CleanIdle /\ MakeIdle /\ CommitIdle /\ MainIdle
        /\ AnyFlag
InitGroup  ==
    MergeIdle /\ ChainIdle /\ ExecIdle /\ FollowIdle /\ GroupInit /\ AddIdle /\ CleanIdle /\ MakeIdle /\ CommitIdle /\ MainIdle
        /\ AnyFlag

\* The Result model alone: three Results are drawn and merged.
SpecMerge == InitMerge /\ [][MergeNext]_vars

\* A Chain is built and invoked on its head.
SpecChain == InitChain /\ [][ChainNext]_vars

\* Chain units are constructed and add_next_test is called on them in any
\* order, with any arguments.
SpecLinks == InitChain /\ [][LinksNext]_vars

\* A Follow unit is given subordinates and invoked.
SpecFollow == InitFollow /\ [][FollowNext]_vars

InitAdd    ==
    MergeIdle /\ ChainIdle /\ ExecIdle /\ FollowIdle /\ GroupIdle /\ AddInit /\ CleanIdle /\ MakeIdle /\ CommitIdle /\ MainIdle
        /\ DefaultFlag

\* One call of add_test, for every group, unit and position of the bounds.
SpecAddTest == InitAdd /\ [][AddNext]_vars

\* The master group is filled, by add and by absorbing the build units, and
\* invoked, more than once.
SpecGroup == InitGroup /\ [][GroupNext]_vars

\* One call of execute_command with its reader thread and its child.
SpecExec == InitExec /\ [][ExecNext]_vars

\* The executor under the scheduling the code has: the consumer and the reader
\* thread keep taking their steps and the clock keeps running; nothing obliges
\* the child to write, to close its output or to exit.
FairSpecExec ==
    /\ SpecExec
    /\ WF_vars(ConsumerNext)
    /\ WF_vars(ReaderNext)
    /\ WF_vars(Tick)

InitClean ==
    MergeIdle /\ ChainIdle /\ ExecIdle /\ FollowIdle /\ GroupIdle /\ AddIdle
        /\ CleanInit /\ MakeIdle /\ CommitIdle /\ MainIdle
        /\ DefaultFlag

\* cleanup is called on a unit with any recorded paths, more than once.
SpecClean == InitClean /\ [][CleanNext]_vars

InitMake ==
    MergeIdle /\ ChainIdle /\ ExecIdle /\ FollowIdle /\ GroupIdle /\ AddIdle
        /\ CleanIdle /\ MakeInit /\ CommitIdle /\ MainIdle
        /\ DefaultFlag

\* perform_test is called once on a build unit with any required files.
SpecMake == InitMake /\ [][MakeNext]_vars

InitCommit ==
    MergeIdle /\ ChainIdle /\ ExecIdle /\ FollowIdle /\ GroupIdle /\ AddIdle
        /\ CleanIdle /\ MakeIdle /\ CommitInit /\ MainIdle
        /\ DefaultFlag

\* check_commit_date polls for the tag and its commit-date file.
SpecCommit == InitCommit /\ [][CommitNext]_vars

\* check_commit_date under the scheduling the code has: the loop keeps taking
\* its steps, each sleep included; nothing obliges the tag or its file to
\* appear.
FairSpecCommit == SpecCommit /\ WF_vars(CdCode)

InitMain ==
    MergeIdle /\ ChainIdle /\ ExecIdle /\ FollowIdle /\ GroupIdle /\ AddIdle
        /\ CleanIdle /\ MakeIdle /\ CommitIdle /\ MainInit
        /\ DefaultFlag

\* run_main is called with any of the options, on any registered build rules.
SpecMain == InitMain /\ [][MainNext]_vars

Init ==
    \/ InitMerge
    \/ InitChain
    \/ InitExec
    \/ InitFollow
    \/ InitGroup
    \/ InitAdd
    \/ InitClean
    \/ InitMake
    \/ InitCommit
    \/ InitMain
Next ==
    \/ MergeNext
    \/ ChainNext
    \/ ExecNext
    \/ FollowNext
    \/ GroupNext
    \/ AddNext
    \/ CleanNext
    \/ MakeNext
    \/ CommitNext
    \/ MainNext
Spec == Init /\ [][Next]_vars

-----------------------------------------------------------------------------
(* Properties *)

\* The order of the severities: SUCCESS < WARNING < ERROR.
Rank(s) == CASE s = SUCCESS -> 1 [] s = WARNING -> 2 [] s = ERROR -> 3

MaxSeverity(x, y) == IF Rank(x) >= Rank(y) THEN x ELSE y

\* The worst severity among a non-empty sequence of Results.
WorstOf(results) ==
    CHOOSE s \in result_type :
        /\ \E i \in 1..Len(results) : results[i].result = s
        /\ \A i \in 1..Len(results) : Rank(results[i].result) <= Rank(s)

\* The statuses execute_command returns for a child that exited by itself with
\* a non-zero code.
NonZeroExitStatuses == {<<status>> : status \in 1..MaxExit}

\* execute_command is between the launch of the child and its return.
ExecRunning == pc \in {"thread", "poll", "alive", "get", "timeout", "communicate"}

\* C1: when execute_command returns without a timeout, every line the child
\* emitted has been relayed, in order, to every enabled sink.
C1_NoDrop ==
    (pc = "returned" /\ ~killed) =>
        /\ print_to_stdout => LineIds(console) = LineIds(emitted)
        /\ test_log_open => LineIds(test_log) = LineIds(emitted)
        /\ fp_open => LineIds(cmd_log) = LineIds(emitted)

\* C2: with a positive timeout, once the child is still running after more
\* than timeout_seconds since launch, execute_command eventually returns.
C2_TimeoutEnforced ==
    (ExecRunning /\ timeout_seconds > 0 /\ child = "running" /\ now > timeout_seconds)
        ~> (pc = "returned")

\* C3: the status returned after terminating a timed-out child differs from
\* every status returned for a child that exited by itself with a non-zero code.
C3_TimeoutStatusDistinct ==
    (pc = "returned" /\ killed) => ret \notin NonZeroExitStatuses

\* C4: a.merged_result(b) is a Result whose severity is the stricter of the
\* severities of a and b.
C4_MergeSeverityIsMax ==
    op = "ab" => IsResult(out) /\ out.result = MaxSeverity(a.result, b.result)

\* C5: the message of a.merged_result(b) is a.msg, a newline and b.msg when
\* both are present, the one present when exactly one is, absent when none is.
C5_MergeMessage ==
    op = "ab" =>
        /\ IsResult(out)
        /\ out.msg = IF a.msg # NoMsg /\ b.msg # NoMsg
                     THEN <<a.msg[1] \o "\n" \o b.msg[1]>>
                     ELSE IF a.msg # NoMsg THEN a.msg ELSE b.msg

\* C6: merged_result returns a Result, and never raises, for every pair of
\* operands and for an absent second operand.
C6_MergeTotal ==
    op \in {"ab", "a_none"} => IsResult(out)

\* C7: merge(a, b) and merge(merge(a, b), c) are Results that name a's unit.
C7_MergeNamesLeftUnit ==
    op \in {"ab", "ab_c"} => IsResult(out) /\ out.test = a.test

\* C8: once the invocation of a Chain on its head has ended, perform_test has
\* been called on every linked unit exactly once, in head-to-tail order.
C8_ChainVisitsEveryLink ==
    cpc \in {"returned", "raised"} =>
        [i \in 1..Len(performed) |-> performed[i].test] = [i \in 1..nlinks |-> i]

\* C9: invoking a Chain yields a Result whose severity is the worst severity
\* among the Results of all of its links.
C9_ChainSeverityIsWorst ==
    cpc \in {"returned", "raised"} =>
        /\ cpc = "returned"
        /\ Len(performed) = nlinks
        /\ new_result.result = WorstOf(performed)

\* C10: the Result returned by invoking a Chain on its head names the head.
C10_ChainNamesHead ==
    cpc = "returned" => new_result.test = 1

\* The messages of a non-empty sequence, joined by newlines in sequence order.
RECURSIVE JoinLines(_)
JoinLines(msgs) ==
    IF Len(msgs) = 1 THEN msgs[1] ELSE msgs[1] \o "\n" \o JoinLines(Tail(msgs))

\* C11: when every link returned a message, the message of the Result the
\* Chain returns is the links' messages joined by newlines in head-to-tail
\* order.
C11_ChainMessageOrder ==
    (cpc = "returned" /\ \A i \in 1..Len(performed) : performed[i].msg # NoMsg) =>
        new_result.msg =
            <<JoinLines([i \in 1..Len(performed) |-> performed[i].msg[1]])>>

\* The units whose perform_test was called by the invocation of the Follow.
FollowPerformedUnits == {fperformed[i].test : i \in 1..Len(fperformed)}

\* The invocation of the Follow has ended, by a return or by an exception.
FollowEnded == fpc \in {"returned", "raised"}

\* C12: once the invocation of a Follow has ended, perform_test has been called
\* on the primary and then on every subordinate, once each, in list order,
\* whatever severities and messages they returned.
C12_FollowRunsAllSubordinates ==
    FollowEnded =>
        [i \in 1..Len(fperformed) |-> fperformed[i].test] = <<1>> \o follow_sub_tests[1]

\* C13: invoking a Follow yields a Result that names the primary, whose
\* severity is the worst of the primary's and the subordinates', and whose
\* message, when all of them returned one, is the primary's followed by the
\* subordinates' in list order.
C13_FollowResult ==
    FollowEnded =>
        /\ fpc = "returned"
        /\ own_result.test = 1
        /\ own_result.result = WorstOf(fperformed)
        /\ (\A i \in 1..Len(fperformed) : fperformed[i].msg # NoMsg) =>
               own_result.msg =
                   <<JoinLines([i \in 1..Len(fperformed) |-> fperformed[i].msg[1]])>>

\* The units of the composite rooted at u: u, its subordinates, theirs, ...
RECURSIVE UnitsOf(_)
UnitsOf(u) ==
    {u} \cup UNION {UnitsOf(follow_sub_tests[u][i]) : i \in 1..Len(follow_sub_tests[u])}

\* C14: when the invocation of a Follow returns, every unit of the composite
\* has been run, the units of a subordinate that is itself a Follow included.
C14_NestedUnitsRun ==
    fpc = "returned" => FollowPerformedUnits = UnitsOf(1)

\* The invocation of the group has ended, by a return or by an exception.
GroupEnded == gpc \in {"returned", "raised"}

\* The members on which the current invocation called initiate_test, in call
\* order.
GroupInvokedTests == [i \in 1..Len(ginvoked) |-> ginvoked[i].test]

\* C15: once an invocation of the group has ended, initiate_test has been
\* called once for every member, in membership order.
C15_GroupInvokesEveryMember ==
    GroupEnded => GroupInvokedTests = sub_tests

\* The worst severity among the Results the members returned to the current
\* invocation, SUCCESS when there is none.
GroupWorst ==
    IF \E i \in 1..Len(ginvoked) : ginvoked[i].result.result = ERROR THEN ERROR
    ELSE IF \E i \in 1..Len(ginvoked) : ginvoked[i].result.result = WARNING
         THEN WARNING
         ELSE SUCCESS

\* C16: the Result an invocation of the group returns has the worst severity
\* among the Results its members returned to that invocation.
C16_GroupSeverityIsWorst ==
    gpc = "returned" => group_result.result = GroupWorst

\* C17: when an invocation of the group returns, the result table has as many
\* entries as the group has members.
C17_TableSizeIsMemberCount ==
    gpc = "returned" => Len(result_dict) = Len(sub_tests)

\* The textual Results of the first n calls of the current invocation, one per
\* line, in call order.
RECURSIVE InvokedText(_)
InvokedText(n) ==
    IF n = 0 THEN "" ELSE InvokedText(n - 1) \o str(ginvoked[n].result) \o "\n"

\* C18: when the members all came into the group by add_test, the message of
\* the Result an invocation returns is the members' textual Results, one per
\* member, in membership order, the order they were just run in.
C18_GroupMessageInMemberOrder ==
    (gpc = "returned" /\ ~absorbed) =>
        /\ GroupInvokedTests = sub_tests
        /\ group_result.msg = <<InvokedText(Len(ginvoked))>>

\* C19: a member whose command cannot be launched returns an ERROR Result to
\* the group, no exception, and the invocation of the group goes on to its
\* remaining members and returns.
C19_NoRawFailure ==
    /\ \A i \in 1..Len(ginvoked) :
          IsResult(ginvoked[i].result) /\ ginvoked[i].result.test = ginvoked[i].test
    /\ gpc # "raised"

\* s is an initial part of t.
IsPrefix(s, t) == Len(s) <= Len(t) /\ \A i \in 1..Len(s) : s[i] = t[i]

\* C20: at every point of execute_command the lines relayed to each enabled
\* sink are, in this order, the first lines the child emitted, and after each
\* relay step the enabled sinks hold the same sequence of lines.
C20_SinkOrder ==
    /\ print_to_stdout => IsPrefix(LineIds(console), LineIds(emitted))
    /\ test_log_open => IsPrefix(LineIds(test_log), LineIds(emitted))
    /\ fp_open => IsPrefix(LineIds(cmd_log), LineIds(emitted))
    /\ (print_to_stdout /\ test_log_open) => console = test_log
    /\ (print_to_stdout /\ fp_open) => console = cmd_log
    /\ (test_log_open /\ fp_open) => test_log = cmd_log

\* Two lines have been relayed to two enabled sinks while a third line, or the
\* end of the call, is still to come.
C20_Witness ==
    /\ print_to_stdout
    /\ test_log_open
    /\ Len(console) >= 2
    /\ Len(test_log) >= 2

\* The statuses a child can exit with by itself.
ExitStatuses == {<<status>> : status \in 0..MaxExit}

\* C21: when execute_command returns without having terminated the child, the
\* child has exited by itself and the value returned is its exit status.
C21_ReturnsExitStatus ==
    (pc = "returned" /\ ~killed) =>
        /\ child = "exited"
        /\ ret \in ExitStatuses
        /\ ret = returncode

\* The call returned the largest exit status, a non-zero one.
C21_Witness == pc = "returned" /\ ~killed /\ ret = <<MaxExit>>

\* C22: the child is terminated only with a positive timeout that the elapsed
\* time has exceeded; with timeout_seconds <= 0 it is never terminated and the
\* call returns only once the child has exited.
C22_KillOnlyOnTimeout ==
    /\ killed => (timeout_seconds > 0 /\ now > timeout_seconds)
    /\ (timeout_seconds <= 0 /\ pc = "returned") => child = "exited"

\* The child was terminated on a timeout and the call returned.
C22_Witness == killed /\ pc = "returned" /\ timeout_seconds > 0

\* C23: when execute_command returns, after a normal completion or after a
\* timeout, its child has terminated and its reader thread has finished.
C23_QuiescentOnReturn ==
    pc = "returned" => (child = "exited" /\ rpc = "done")

\* The first n Results of a sequence merged from the left, each into the
\* Result of those before it.
RECURSIVE MergeFromLeft(_, _)
MergeFromLeft(results, n) ==
    IF n = 1 THEN results[1]
    ELSE CallMerged(MergeFromLeft(results, n - 1), results[n])

\* The first n Results of a sequence merged as the Chain does it, each with
\* the Result of those before it as the argument.
RECURSIVE MergeIntoEach(_, _)
MergeIntoEach(results, n) ==
    IF n = 0 THEN None
    ELSE CallMerged(results[n], MergeIntoEach(results, n - 1))

\* The invocation of the Chain has ended, by a return or by an exception.
ChainEnded == cpc \in {"returned", "raised"}

\* C24: whether the units were constructed with abort_on_error true or false,
\* the checks a Chain, a Follow or a Group has executed when its invocation
\* ends, and the Result it folded, are those its member list and its members'
\* outcomes determine: it stops before its last member only on an exception,
\* never on a severity.
C24_AbortOnErrorIgnored ==
    /\ ChainEnded =>
          /\ [i \in 1..Len(performed) |-> performed[i].test]
                 = [i \in 1..Len(performed) |-> i]
          /\ cpc = "returned" =>
                 /\ Len(performed) = nlinks
                 /\ new_result = MergeIntoEach(performed, Len(performed))
          /\ cpc = "raised" => MergeIntoEach(performed, Len(performed)) = TypeError
    /\ FollowEnded =>
          /\ [i \in 1..Len(fperformed) |-> fperformed[i].test]
                 = SubSeq(<<1>> \o follow_sub_tests[1], 1, Len(fperformed))
          /\ fpc = "returned" =>
                 /\ Len(fperformed) = 1 + Len(follow_sub_tests[1])
                 /\ own_result = MergeFromLeft(fperformed, Len(fperformed))
          /\ fpc = "raised" => MergeFromLeft(fperformed, Len(fperformed)) = TypeError
    /\ GroupEnded =>
          /\ GroupInvokedTests = SubSeq(sub_tests, 1, Len(ginvoked))
          /\ gpc = "returned" =>
                 /\ Len(ginvoked) = Len(sub_tests)
                 /\ group_result = getResult(result_dict)
          /\ gpc = "raised" => ginvoked[Len(ginvoked)].result = OSError

\* Units constructed with abort_on_error true: the primary of a Follow returned
\* ERROR, its subordinates were run all the same and the Follow returned.
C24_Witness ==
    /\ abort_on_error
    /\ fpc = "returned"
    /\ Len(fperformed) >= 2
    /\ fperformed[1].result = ERROR

\* C25: for all Results a, b and c, merge(merge(a, b), c) and
\* merge(a, merge(b, c)) both return a Result, and the two Results have the
\* same severity, message and unit.
C25_MergeAssociative ==
    op = "ab_c" =>
        LET right == CallMerged(a, CallMerged(b, c))
        IN  /\ IsResult(out)
            /\ IsResult(right)
            /\ out = right

\* C26: a.merged_result(None) returns a Result with the unit, the severity and
\* the message of a, and a is as it was before the call.
C26_MergeWithNone ==
    [][op' = "a_none" =>
          /\ a' = a
          /\ IsResult(out')
          /\ out'.test = a.test
          /\ out'.result = a.result
          /\ out'.msg = a.msg]_vars

\* a, an ERROR with a message, has been merged with None.
C26_Witness == op = "a_none" /\ a.result = ERROR /\ a.msg # NoMsg /\ IsResult(out)

\* C27: after any sequence of add and absorb, getTest returns, for the name of
\* every member, that very member, and None for a name no member has.
C27_FindReturnsTheUnitAdded ==
    GroupAtRest =>
        /\ \A i \in 1..Len(sub_tests) :
              getTest(sub_tests, getName(sub_tests[i])) = <<sub_tests[i]>>
        /\ getTest(sub_tests, "unregistered") = NoInt

\* add_test was given a position that is an index of the list.
AddPositionValid ==
    /\ arg_position # NoInt
    /\ arg_position[1] >= 0
    /\ arg_position[1] < Len(arg_tests)

\* The index (from 1) at which the claim places the unit added.
AddPlace ==
    IF AddPositionValid THEN arg_position[1] + 1 ELSE Len(arg_tests) + 1

\* What is left of a list when the member at index i is taken out.
RemoveAt(tests, i) == SubSeq(tests, 1, i - 1) \o SubSeq(tests, i + 1, Len(tests))

\* C28: add_test(rtest, position) puts rtest at the index position when
\* position is an index of the member list and at the end otherwise (no
\* position, a negative one, one past the last index); the list grows by one
\* and the members it had keep their places relative to each other.
C28_AddTestPosition ==
    apc = "done" =>
        /\ Len(add_out) = Len(arg_tests) + 1
        /\ add_out[AddPlace] = arg_rtest
        /\ RemoveAt(add_out, AddPlace) = arg_tests

\* A unit has been inserted between the two members of a group.
C28_Witness ==
    /\ apc = "done"
    /\ Len(arg_tests) = 2
    /\ arg_position = <<1>>
    /\ arg_tests[1] # arg_tests[2]
    /\ add_out = <<arg_tests[1], arg_rtest, arg_tests[2]>>

\* C29: add_group is list concatenation. When the master group absorbs the
\* group of makefile tests, its members are afterwards the members it had, in
\* their order, followed by the members of the other group in that group's
\* order; the other group's member list and the result table are as before.
C29_AbsorbConcatenates ==
    [][GroupAddMakefileTests =>
           /\ sub_tests' = sub_tests \o makefile_tests
           /\ makefile_tests' = makefile_tests
           /\ result_dict' = result_dict]_vars

\* A group that had a member of its own and a result in its table has absorbed
\* the group of makefile tests.
C29_Witness ==
    /\ absorbed
    /\ gpc = "build"
    /\ Len(sub_tests) = 2
    /\ ~IsMakefileTest(sub_tests[1])
    /\ makefile_tests = <<sub_tests[2]>>
    /\ result_dict # <<>>

\* The number of entries of the result table that have severity s.
SeverityCount(dict, s) == Cardinality({i \in 1..Len(dict) : dict[i].result.result = s})

\* The counts that the lines printed report under a heading.
ReportedCounts(lines, heading) ==
    {n \in 0..NumUnits :
        \E i \in 1..Len(lines) : lines[i] = " " \o ToString(n) \o " " \o heading}

\* The lines report the count n under the heading; a category without entries
\* has no count line.
ReportsCount(lines, heading, n) ==
    ReportedCounts(lines, heading) = IF n = 0 THEN {} ELSE {n}

\* C30: print_test_summary only reports. The call leaves the result table and
\* the member list as they were; the warning count and the error count it
\* prints are the numbers of table entries of severity WARNING and ERROR (no
\* count line stands for a count of zero); the line "No errors or warnings" is
\* printed exactly when both numbers are zero.
C30_SummaryReportsOnly ==
    [][(gpc = "returned" /\ gpc' = "summarised") =>
           /\ result_dict' = result_dict
           /\ sub_tests' = sub_tests
           /\ ReportsCount(summary', "Warnings", SeverityCount(result_dict, WARNING))
           /\ ReportsCount(summary', "Errors", SeverityCount(result_dict, ERROR))
           /\ (\E i \in 1..Len(summary') : summary'[i] = "  No errors or warnings")
                  <=> /\ SeverityCount(result_dict, WARNING) = 0
                      /\ SeverityCount(result_dict, ERROR) = 0]_vars

\* The summary of a table with one warning and one error has been printed.
C30_Witness ==
    /\ gpc = "summarised"
    /\ SeverityCount(result_dict, WARNING) = 1
    /\ SeverityCount(result_dict, ERROR) = 1
    /\ summary[1] = " 1 Warnings"
    /\ \E i \in 2..Len(summary) : summary[i] = " 1 Errors"

\* The paths recorded in the unit's files_to_delete.
Recorded == {files_to_delete[i] : i \in 1..Len(files_to_delete)}

\* C31: cleanup is idempotent and safe. No cleanup call raises; a call on a
\* unit that recorded nothing (it never ran) deletes nothing; a call deletes
\* only paths of the unit's own files_to_delete; a call that follows another
\* leaves the file system as the first one left it.
C31_CleanupIdempotentSafe ==
    /\ klpc # "raised"
    /\ \A i \in 1..Len(cleanups) :
          /\ ~cleanups[i].raised
          /\ files_to_delete = <<>> => cleanups[i].after = cleanups[i].before
          /\ (cleanups[i].before \ cleanups[i].after) \subseteq Recorded
          /\ cleanups[i].after \subseteq cleanups[i].before
          /\ i > 1 => cleanups[i].after = cleanups[i - 1].after

\* cleanup has been called twice on a unit that recorded one path twice and a
\* path that does not exist, next to a file of another unit: the first call
\* deleted the unit's file and nothing else.
C31_Witness ==
    /\ Len(cleanups) = 2
    /\ files_to_delete = <<1, 1>>
    /\ cleanups[1].before = {1, 2}
    /\ cleanups[1].after = {2}
    /\ existing = {2}

\* perform_test has called execute_command.
MakeLaunched == \E i \in 1..Len(make_calls) : make_calls[i] = ExecuteCall

\* The places in make_calls where a required build file is looked up.
BuildCheckPlaces == {i \in 1..Len(make_calls) : make_calls[i].kind = "build"}

\* A required build file does not exist in the working directory.
BuildFileMissing ==
    /\ HasRequired(required_build_files)
    /\ \E i \in 1..Len(required_build_files[1]) :
          required_build_files[1][i] \notin make_files

\* C32: when the command has returned a status, perform_test returns ERROR for
\* a non-zero status, WARNING for status 0 with a required build file missing
\* and SUCCESS for status 0 with every required build file there; the build
\* files are looked up only after the command, and only when its status is 0.
C32_MakeClassification ==
    (mkpc = "returned" /\ mk_return_val # None) =>
        /\ IsResult(make_result)
        /\ make_result.result =
               IF mk_return_val.code # 0 THEN ERROR
               ELSE IF BuildFileMissing THEN WARNING
               ELSE SUCCESS
        /\ mk_return_val.code # 0 => BuildCheckPlaces = {}
        /\ \A i \in BuildCheckPlaces :
              \E j \in 1..(i - 1) : make_calls[j] = ExecuteCall

\* The command returned 0, a required build file is missing, and the unit has
\* returned WARNING after looking the file up.
C32_Witness ==
    /\ mkpc = "returned"
    /\ mk_return_val = ReturnVal(0)
    /\ BuildFileMissing
    /\ BuildCheckPlaces # {}
    /\ make_result.result = WARNING

\* A required input file does not exist in the working directory.
InputFileMissing ==
    /\ HasRequired(required_input_files)
    /\ \E i \in 1..Len(required_input_files[1]) :
          required_input_files[1][i] \notin make_files

\* C33: when a required input file is missing, perform_test returns ERROR
\* without calling execute_command and without looking up a build file; the
\* working directory is as it was.
C33_MissingInputStopsTheRule ==
    [][(mkpc = "ready" /\ InputFileMissing) =>
           /\ mkpc' = "returned"
           /\ IsResult(make_result')
           /\ make_result'.result = ERROR
           /\ ~MakeLaunched'
           /\ mk_return_val' = None
           /\ BuildCheckPlaces' = {}
           /\ make_files' = make_files]_vars

\* A unit with a missing required input file has returned ERROR having only
\* asked for that file.
C33_Witness ==
    /\ mkpc = "returned"
    /\ InputFileMissing
    /\ HasRequired(required_build_files)
    /\ make_calls = <<ExistsCall("input", required_input_files[1][1])>>
    /\ make_result.result = ERROR

\* C34: the relay loop of execute_command is left without a timeout (the call
\* is at proc.communicate()) only when the child has terminated and the reader
\* thread has finished draining the pipe.
C34_LoopLeftWhenBothDone ==
    pc = "communicate" => (child = "exited" /\ rpc = "done")

\* C35: when execute_command is called with a log directory and an output
\* filename, it opens the file (and records its path for cleanup) and goes on
\* to launch the child: the call does not fail before the launch.
C35_LogFileOpenedBeforeLaunch ==
    log_wanted => (fp_open /\ pc # "raised")

\* C38: after any sequence of add_next_test calls the double links are
\* consistent: x.next is y exactly when y.previous is x, for all units x, y.
C38_LinksConsistent ==
    \A x, y \in 1..nlinks : (next[x] = y) <=> (previous[y] = x)

\* check_commit_date has returned or raised.
CdEnded == cdpc \in {"returned", "raised"}

\* C37: check_commit_date terminates: while the fetches of the remote tags
\* succeed and the clock advances, the polling loop eventually ends, also
\* when the tag never appears in the repository.
C37_CheckCommitDateTerminates == <>CdEnded

\* C36: submit_lab is called only after a run_tests in which every member
\* executed returned SUCCESS (and which itself returned SUCCESS).
C36_SubmitOnlyAfterCleanRun ==
    submit_called =>
        /\ run_result.result = SUCCESS
        /\ run_returned \subseteq {SUCCESS}

\* How often a unit is among the members of a list.
Occurrences(tests, unit) == Cardinality({i \in 1..Len(tests) : tests[i] = unit})

\* C39: within one run_main call every registered build unit is executed at
\* most once and is a member of the master group at most once.
C39_BuildUnitsRunOnce ==
    \A i \in 1..Len(build_steps) :
        /\ Occurrences(executions, build_steps[i]) <= 1
        /\ Occurrences(main_tests, build_steps[i]) <= 1

====
